---- MODULE Spec2Model ----
(***************************************************************************)
(* Model of jellyfin_organizer.py: the planner (detect_mode_and_run,       *)
(* ShowProcessor.process_show / process_season_content / plan_file_rename  *)
(* / generate_script) over a directory tree, followed by the user applying *)
(* the generated script and running the planner a second time.             *)
(*                                                                         *)
(* A name is a sequence of one-character strings, a path is a sequence of  *)
(* names relative to the library directory.  The regular expressions, the  *)
(* upper-casing, the sorting and the f-string formatting of the source are *)
(* computed on those sequences.                                            *)
(***************************************************************************)
EXTENDS Integers, Sequences, FiniteSets, TLC

-----------------------------------------------------------------------------
(* Characters *)

Digits == <<"0", "1", "2", "3", "4", "5", "6", "7", "8", "9">>

Lowers == <<"a", "b", "c", "d", "e", "f", "g", "h", "i", "j", "k", "l", "m",
            "n", "o", "p", "q", "r", "s", "t", "u", "v", "w", "x", "y", "z">>

Uppers == <<"A", "B", "C", "D", "E", "F", "G", "H", "I", "J", "K", "L", "M",
            "N", "O", "P", "Q", "R", "S", "T", "U", "V", "W", "X", "Y", "Z">>

Puncts == <<" ", "-", ".", "[", "]", "_">>

PunctCodes == <<32, 45, 46, 91, 93, 95>>

IndexIn(seq, c) == CHOOSE i \in 1..Len(seq) : seq[i] = c

Range(seq) == {seq[i] : i \in 1..Len(seq)}

DigitSet == Range(Digits)

LowerSet == Range(Lowers)

UpperSet == Range(Uppers)

CharSet == DigitSet \cup LowerSet \cup UpperSet \cup Range(Puncts)

\* ord(c)
Code == [c \in CharSet |->
           IF c \in DigitSet THEN 47 + IndexIn(Digits, c)
           ELSE IF c \in UpperSet THEN 64 + IndexIn(Uppers, c)
           ELSE IF c \in LowerSet THEN 96 + IndexIn(Lowers, c)
           ELSE PunctCodes[IndexIn(Puncts, c)]]

\* str.upper() and str.lower() on one character
UpperChar == [c \in CharSet |->
                IF c \in LowerSet THEN Uppers[IndexIn(Lowers, c)] ELSE c]

LowerChar == [c \in CharSet |->
                IF c \in UpperSet THEN Lowers[IndexIn(Uppers, c)] ELSE c]

DigitVal == [c \in DigitSet |-> IndexIn(Digits, c) - 1]

IsDigit(c) == c \in DigitSet

upper(s) == [i \in 1..Len(s) |-> UpperChar[s[i]]]

lower(s) == [i \in 1..Len(s) |-> LowerChar[s[i]]]

\* Python's `sub in s`
Contains(s, sub) ==
    \E i \in 1..(Len(s) - Len(sub) + 1) : SubSeq(s, i, i + Len(sub) - 1) = sub

\* s < t for Python strings: by code point, a proper prefix first
StrLess(s, t) ==
    \E i \in 1..(Len(t)) :
        /\ \A k \in 1..(i - 1) : k <= Len(s) /\ s[k] = t[k]
        /\ \/ i = Len(s) + 1
           \/ i <= Len(s) /\ Code[s[i]] < Code[t[i]]

\* int(digits)
RECURSIVE ToInt(_)
ToInt(ds) ==
    IF ds = <<>> THEN 0
    ELSE ToInt(SubSeq(ds, 1, Len(ds) - 1)) * 10 + DigitVal[ds[Len(ds)]]

\* str(n), n >= 0
RECURSIVE Str(_)
Str(n) == IF n < 10 THEN <<Digits[n + 1]>>
          ELSE Str(n \div 10) \o <<Digits[(n % 10) + 1]>>

\* f"{n:02d}"
Fmt02(n) == IF n < 10 THEN <<"0">> \o Str(n) ELSE Str(n)

\* the end of the longest run of digits of s that starts at i (i - 1: none)
DigitRunEnd(s, i) ==
    CHOOSE j \in (i - 1)..Len(s) :
        /\ \A k \in i..j : IsDigit(s[k])
        /\ j = Len(s) \/ ~IsDigit(s[j + 1])

\* the word w (lower case) stands at s[i..], ignoring case
WordAt(s, i, w) ==
    /\ i >= 1
    /\ i + Len(w) - 1 <= Len(s)
    /\ \A k \in 1..Len(w) : LowerChar[s[i + k - 1]] = w[k]

\* the separator class [_.\-\s] of the folder patterns
IsSep(c) == c \in {"_", ".", "-", " "}

None == -1

-----------------------------------------------------------------------------
(* Configuration (lines 27-31) *)

VIDEO_EXTENSIONS ==
    { <<".", "m", "k", "v">>, <<".", "m", "p", "4">>, <<".", "a", "v", "i">>,
      <<".", "m", "4", "v">>, <<".", "i", "s", "o">>, <<".", "w", "m", "v">> }

FOLDER_IGNORE_KEYWORDS ==
    { <<"R", "A", "Z", "O", "R">>,
      <<"T", "H", "E", " ", "P", "L", "A", "N">>,
      <<"C", "O", "N", "Q", "U", "E", "S", "T">>,
      <<"E", "X", "T", "R", "A", "S">>,
      <<"S", "P", "E", "C", "I", "A", "L", "S">>,
      <<"F", "E", "A", "T", "U", "R", "E", "T", "T", "E", "S">>,
      <<"S", "A", "M", "P", "L", "E">> }

FILE_IGNORE_KEYWORDS ==
    { <<"[", "I", "G", "N", "O", "R", "E", "]">>,
      <<"S", "A", "M", "P", "L", "E">>,
      <<"T", "R", "A", "I", "L", "E", "R">> }

-----------------------------------------------------------------------------
(* The classifiers: re.search gives the leftmost match, \d+ is greedy *)

\* (?:season|staffel|s)[_.\-\s]?(\d+) at position i, ignoring case: the
\* position of the first digit of the group, 0 when there is no match at i
SeasonGroupAt(s, i) ==
    LET words == { <<"s", "e", "a", "s", "o", "n">>,
                   <<"s", "t", "a", "f", "f", "e", "l">>,
                   <<"s">> }
        starts == { p \in 1..Len(s) :
                      \E w \in words :
                         /\ WordAt(s, i, w)
                         /\ IsDigit(s[p])
                         /\ \/ p = i + Len(w)
                            \/ p = i + Len(w) + 1 /\ IsSep(s[p - 1]) }
    IN IF starts = {} THEN 0 ELSE CHOOSE p \in starts : \A q \in starts : p <= q

get_clean_season_num(folder_name) ==
    LET s == folder_name
        hits == { i \in 1..Len(s) : SeasonGroupAt(s, i) > 0 }
    IN IF hits = {} THEN None
       ELSE LET i == CHOOSE h \in hits : \A g \in hits : h <= g
                p == SeasonGroupAt(s, i)
            IN ToInt(SubSeq(s, p, DigitRunEnd(s, p)))

\* re.sub(pat, "", s, flags=re.IGNORECASE) for a pattern of plain characters
RECURSIVE ReSubRemove(_, _)
ReSubRemove(s, pat) ==
    IF Len(s) < Len(pat) THEN s
    ELSE IF WordAt(s, 1, pat)
         THEN ReSubRemove(SubSeq(s, Len(pat) + 1, Len(s)), pat)
         ELSE <<s[1]>> \o ReSubRemove(Tail(s), pat)

\* (?:disc|disk|dvd|d)[_.\-\s]?(\d+) at position i, as SeasonGroupAt
DiscGroupAt(s, i) ==
    LET words == { <<"d", "i", "s", "c">>, <<"d", "i", "s", "k">>,
                   <<"d", "v", "d">>, <<"d">> }
        starts == { p \in 1..Len(s) :
                      \E w \in words :
                         /\ WordAt(s, i, w)
                         /\ IsDigit(s[p])
                         /\ \/ p = i + Len(w)
                            \/ p = i + Len(w) + 1 /\ IsSep(s[p - 1]) }
    IN IF starts = {} THEN 0 ELSE CHOOSE p \in starts : \A q \in starts : p <= q

\* s(\d+)d(\d+) at position i, ignoring case: <<group 1, group 2>> or <<>>
SDGroupsAt(s, i) ==
    IF ~WordAt(s, i, <<"s">>) THEN <<>>
    ELSE LET j == DigitRunEnd(s, i + 1)
         IN IF j < i + 1 \/ ~WordAt(s, j + 1, <<"d">>) THEN <<>>
            ELSE LET k == DigitRunEnd(s, j + 2)
                 IN IF k < j + 2 THEN <<>>
                    ELSE << ToInt(SubSeq(s, i + 1, j)),
                            ToInt(SubSeq(s, j + 2, k)) >>

get_clean_disc_num(folder_name, season_num) ==
    LET temp_name == ReSubRemove(folder_name, <<"s">> \o Str(season_num))
        hits == { i \in 1..Len(temp_name) : DiscGroupAt(temp_name, i) > 0 }
        hits2 == { i \in 1..Len(folder_name) : SDGroupsAt(folder_name, i) # <<>> }
    IN IF hits # {}
       THEN LET i == CHOOSE h \in hits : \A g \in hits : h <= g
                p == DiscGroupAt(temp_name, i)
            IN ToInt(SubSeq(temp_name, p, DigitRunEnd(temp_name, p)))
       ELSE IF hits2 = {} THEN None
       ELSE LET i == CHOOSE h \in hits2 : \A g \in hits2 : h <= g
                m == SDGroupsAt(folder_name, i)
            IN IF m[1] = season_num THEN m[2] ELSE m[1]

\* [sS]\d+[eE](\d+) at position i: <<first, last>> index of the group or <<>>
EpisodeGroupAt(s, i) ==
    IF ~(i <= Len(s) /\ s[i] \in {"s", "S"}) THEN <<>>
    ELSE LET j == DigitRunEnd(s, i + 1)
         IN IF j < i + 1 \/ j + 1 > Len(s) THEN <<>>
            ELSE IF s[j + 1] \notin {"e", "E"} THEN <<>>
            ELSE LET k == DigitRunEnd(s, j + 2)
                 IN IF k < j + 2 THEN <<>> ELSE <<j + 2, k>>

get_episode_from_file(filename) ==
    LET hits == { i \in 1..Len(filename) : EpisodeGroupAt(filename, i) # <<>> }
    IN IF hits = {} THEN None
       ELSE LET i == CHOOSE h \in hits : \A g \in hits : h <= g
                m == EpisodeGroupAt(filename, i)
            IN ToInt(SubSeq(filename, m[1], m[2]))

\* as should_ignore_file, but the file name is not upper-cased
should_ignore_file_case_sensitive(filename) ==
    \E k \in FILE_IGNORE_KEYWORDS : Contains(filename, upper(k))

should_ignore_file(filename) ==
    \E k \in FILE_IGNORE_KEYWORDS : Contains(upper(filename), upper(k))

\* line 73: any(k in folder.name.upper() for k in FOLDER_IGNORE_KEYWORDS)
should_ignore_folder(folder_name) ==
    \E k \in FOLDER_IGNORE_KEYWORDS : Contains(upper(folder_name), k)

-----------------------------------------------------------------------------
(* Paths: pathlib's name, suffix, parent and / *)

Name(p) == IF p = <<>> THEN <<>> ELSE p[Len(p)]

Parent(p) == IF p = <<>> THEN <<>> ELSE SubSeq(p, 1, Len(p) - 1)

Join(p, name) == Append(p, name)

\* Path.suffix: from the last dot, none when that dot starts or ends the name
Suffix(name) ==
    LET dots == { i \in 2..(Len(name) - 1) : name[i] = "." }
    IN IF dots = {} \/ (name # <<>> /\ name[Len(name)] = ".") THEN <<>>
       ELSE LET i == CHOOSE d \in dots : \A e \in dots : e <= d
            IN SubSeq(name, i, Len(name))

IsVideo(name) == lower(Suffix(name)) \in VIDEO_EXTENSIONS

\* sorted(...) of sibling paths (or of paths by their name)
RECURSIVE SortedPaths(_)
SortedPaths(S) ==
    IF S = {} THEN <<>>
    ELSE LET m == CHOOSE x \in S : \A y \in S \ {x} : StrLess(Name(x), Name(y))
         IN <<m>> \o SortedPaths(S \ {m})

\* as SortedInts, but the largest number comes first
RECURSIVE SortedIntsDescending(_)
SortedIntsDescending(S) ==
    IF S = {} THEN <<>>
    ELSE LET m == CHOOSE x \in S : \A y \in S : x >= y
         IN <<m>> \o SortedIntsDescending(S \ {m})

\* sorted(...) of a set of integers
RECURSIVE SortedInts(_)
SortedInts(S) ==
    IF S = {} THEN <<>>
    ELSE LET m == CHOOSE x \in S : \A y \in S : x <= y
         IN <<m>> \o SortedInts(S \ {m})

-----------------------------------------------------------------------------
(* The directory trees the planner is run on *)

nShow    == <<"S", "h", "o", "w">>
nMissing == <<"M", "i", "s", "s", "i", "n", "g">>
nSeason1 == <<"S", "e", "a", "s", "o", "n", " ", "1">>
nSeason2 == <<"S", "e", "a", "s", "o", "n", " ", "2">>
nS2D1    == <<"S", "2", "D", "1">>
nS2D2    == <<"S", "2", "D", "2">>

f1       == <<"1", ".", "m", "k", "v">>
f2       == <<"2", ".", "m", "k", "v">>
fz       == <<"z", ".", "m", "k", "v">>
fS01E01  == <<"S", "0", "1", "E", "0", "1", ".", "m", "k", "v">>
fS01E02  == <<"S", "0", "1", "E", "0", "2", ".", "m", "k", "v">>
fxS01E01 == <<"x", "S", "0", "1", "E", "0", "1", ".", "m", "k", "v">>
fSample  == <<"S", "a", "m", "p", "l", "e", ".", "m", "k", "v">>
fNotes   == <<"n", ".", "t", "x", "t">>

nTv       == <<"T", "v">>
nExtras1  == <<"E", "x", "t", "r", "a", "s", " ", "1">>
nExtrasD1 == <<"E", "x", "t", "r", "a", "s", " ", "D", "1">>
nStaffel1 == <<"S", "t", "a", "f", "f", "e", "l", " ", "1">>
nDisc2    == <<"D", "i", "s", "c", " ", "2">>

fOther   == <<"o", "t", "h", "e", "r", ".", "m", "k", "v">>
fPilot   == <<"p", "i", "l", "o", "t", " ", "S", "0", "1", "E", "0", "5",
              ".", "m", "k", "v">>
fS01E00  == <<"S", "0", "1", "E", "0", "0", ".", "m", "k", "v">>

\* The names above sort the same way by code point (PosixPath, str) and with
\* case folded (WindowsPath), and no two of them differ only in case.
FilesIn(dir, names) == { Join(dir, n) : n \in names }

CandidateFiles ==
    FilesIn(<<nShow>>, {f1, fS01E01, fSample})
    \cup FilesIn(<<nShow, nSeason1>>, {f1, f2, fS01E02, fxS01E01, fz, fSample, fNotes})
    \cup FilesIn(<<nShow, nSeason2>>, {f1})
    \cup FilesIn(<<nShow, nSeason2, nS2D1>>, {f1, f2, fSample})
    \cup FilesIn(<<nShow, nSeason2, nS2D2>>, {f1})
    \cup FilesIn(<<nShow, nS2D1>>, {f1, f2})
    \cup FilesIn(<<nShow, nS2D2>>, {f1})

\* A library of two shows.  Root files are sorted by name as str (line 106) on
\* every platform; the folders and the files of a season folder again sort the
\* same way by code point and with case folded.
LibraryFiles ==
    FilesIn(<<nShow>>, {fSample, fOther, fPilot, fz})
    \cup FilesIn(<<nShow, nStaffel1>>, {f1, fS01E00})
    \cup FilesIn(<<nShow, nExtras1>>, {f1})
    \cup FilesIn(<<nShow, nSeason2>>, {f1})
    \cup FilesIn(<<nShow, nSeason2, nExtrasD1>>, {f1})
    \cup FilesIn(<<nShow, nSeason2, nDisc2>>, {f1})
    \cup FilesIn(<<nShow, nSeason2, nS2D1>>, {f1})
    \cup FilesIn(<<nTv>>, {f1})

\* the largest number of files in a tree
MaxFiles == 3

\* the largest number of files in a tree of the library
MaxLibraryFiles == 4

Prefixes(p) == { SubSeq(p, 1, n) : n \in 0..(Len(p) - 1) }

DirsOf(F) == UNION { Prefixes(p) : p \in F }

-----------------------------------------------------------------------------
(* State *)

VARIABLES
    files,             \* the tree: path of a file |-> its content (the path it had at first)
    dirs,              \* the tree: the set of directories
    target,            \* path_str of detect_mode_and_run
    os_name,           \* os.name, "unread" until generate_script reads it
    pc,                \* where the run is
    run,               \* 1: the first planning run, 2: the run after the script was applied
    operations,        \* ShowProcessor.operations
    tree_output,       \* ShowProcessor.tree_output
    script,            \* the lines of the apply script file, NoScript when not written
    applied,           \* how many lines of the script the user's shell has executed
    shows,             \* detect_mode_and_run: the shows still to process
    show_path,         \* process_show: show_path
    show_logs,         \* process_show: show_logs
    initial_ops_count, \* process_show: initial_ops_count
    root_files,        \* process_show: root_files
    seasons_map,       \* process_show: seasons_map
    season_queue,      \* process_show: the rest of sorted(seasons_map.keys())
    s_num,             \* process_season_content: s_num (0: no season entered yet)
    is_root,           \* process_season_content: is_root
    episode_counter,   \* process_season_content: episode_counter
    file_queue,        \* process_season_content: the rest of direct_files or disc_files
    discs_map,         \* process_season_content: discs_map
    disc_queue,        \* process_season_content: the rest of sorted(discs_map.keys())
    assigned           \* history: what plan_file_rename assigned to the files of this show

vars == << files, dirs, target, os_name, pc, run, operations, tree_output, script,
           applied, shows, show_path, show_logs, initial_ops_count, root_files,
           seasons_map, season_queue, s_num, is_root, episode_counter, file_queue,
           discs_map, disc_queue, assigned >>

treeVars == << files, dirs >>

showVars == << show_path, show_logs, initial_ops_count, root_files, seasons_map,
               season_queue >>

seasonVars == << s_num, is_root, episode_counter, file_queue, discs_map,
                 disc_queue, assigned >>

\* seasons_map[1] = "CREATE_ROOT_S1": a value no folder path equals
CREATE_ROOT_S1 == << <<"CREATE_ROOT_S1">> >>

NoScript == << <<"None">> >>

NoName == <<>>

EmptyMap == [k \in {} |-> <<>>]

\* iterdir()
Children(p) ==
    { q \in dirs \cup DOMAIN files : Len(q) = Len(p) + 1 /\ SubSeq(q, 1, Len(p)) = p }

is_dir(q) == q \in dirs

is_file(q) == q \in DOMAIN files

Max(a, b) == IF a >= b THEN a ELSE b

Init ==
    /\ \E F \in SUBSET CandidateFiles :
          /\ Cardinality(F) \in 1..MaxFiles
          /\ files = [p \in F |-> p]
          /\ dirs = DirsOf(F)
    /\ target \in {<<>>, <<nShow>>, <<nMissing>>}
    /\ os_name = "unread"
    /\ pc = "start"
    /\ run = 1
    /\ operations = <<>>
    /\ tree_output = <<>>
    /\ script = NoScript
    /\ applied = 0
    /\ shows = <<>>
    /\ show_path = <<>>
    /\ show_logs = <<>>
    /\ initial_ops_count = 0
    /\ root_files = <<>>
    /\ seasons_map = EmptyMap
    /\ season_queue = <<>>
    /\ s_num = 0
    /\ is_root = FALSE
    /\ episode_counter = 0
    /\ file_queue = <<>>
    /\ discs_map = EmptyMap
    /\ disc_queue = <<>>
    /\ assigned = <<>>

\* as Init, for the trees of the library
InitLibrary ==
    /\ \E F \in SUBSET LibraryFiles :
          /\ Cardinality(F) \in 1..MaxLibraryFiles
          /\ files = [p \in F |-> p]
          /\ dirs = DirsOf(F)
    /\ target \in {<<>>, <<nShow>>, <<nMissing>>}
    /\ os_name = "unread"
    /\ pc = "start"
    /\ run = 1
    /\ operations = <<>>
    /\ tree_output = <<>>
    /\ script = NoScript
    /\ applied = 0
    /\ shows = <<>>
    /\ show_path = <<>>
    /\ show_logs = <<>>
    /\ initial_ops_count = 0
    /\ root_files = <<>>
    /\ seasons_map = EmptyMap
    /\ season_queue = <<>>
    /\ s_num = 0
    /\ is_root = FALSE
    /\ episode_counter = 0
    /\ file_queue = <<>>
    /\ discs_map = EmptyMap
    /\ disc_queue = <<>>
    /\ assigned = <<>>

-----------------------------------------------------------------------------
(* detect_mode_and_run, lines 204-225: the mode and the shows to process *)

has_season_folders ==
    \E x \in Children(target) :
        /\ is_dir(x)
        /\ \/ Contains(lower(Name(x)), <<"s", "e", "a", "s", "o", "n">>)
           \/ Contains(lower(Name(x)), <<"s", "t", "a", "f", "f", "e", "l">>)

has_video_files ==
    \E x \in Children(target) : is_file(x) /\ lower(Suffix(Name(x))) \in VIDEO_EXTENSIONS

DetectModeAndRun ==
    /\ pc = "start"
    /\ IF ~(is_dir(target) \/ is_file(target))
       THEN /\ pc' = "done"
            /\ UNCHANGED << operations, tree_output, shows >>
       ELSE /\ pc' = "show"
            /\ operations' = <<>>
            /\ tree_output' = <<>>
            /\ shows' = IF has_season_folders \/ has_video_files
                        THEN <<target>>
                        ELSE SortedPaths({ x \in Children(target) : is_dir(x) })
    /\ UNCHANGED << treeVars, target, os_name, run, script, applied, showVars,
                    seasonVars >>

-----------------------------------------------------------------------------
(* ShowProcessor *)

\* log_tree, lines 164-170: the line it appends
log_tree(log_list, level, text, operation) ==
    Append(log_list,
           IF operation # NoName
           THEN [indent |-> level, mark |-> "|--", text |-> text, arrow |-> operation]
           ELSE [indent |-> level, mark |-> "L--", text |-> text, arrow |-> NoName])

\* as MapFoldersToSeasons, but a season number already mapped is kept
RECURSIVE MapFoldersToSeasonsFirstWins(_, _)
MapFoldersToSeasonsFirstWins(folders, map) ==
    IF folders = <<>> THEN map
    ELSE LET folder == Head(folders)
             n == get_clean_season_num(Name(folder))
         IN MapFoldersToSeasonsFirstWins(
                Tail(folders),
                IF should_ignore_folder(Name(folder)) \/ n = None THEN map
                ELSE map @@ (n :> folder))

\* lines 72-77: the loop over the sorted folders, later folders overwrite
RECURSIVE MapFoldersToSeasons(_, _)
MapFoldersToSeasons(folders, map) ==
    IF folders = <<>> THEN map
    ELSE LET folder == Head(folders)
             n == get_clean_season_num(Name(folder))
         IN MapFoldersToSeasons(
                Tail(folders),
                IF should_ignore_folder(Name(folder)) \/ n = None THEN map
                ELSE (n :> folder) @@ map)

\* as WithRootSeason, but root files never imply a season
WithoutRootSeason(map, rootFiles) == map

\* lines 80-82: root files imply season 1
WithRootSeason(map, rootFiles) ==
    IF /\ rootFiles # <<>>
       /\ ~\E i \in 1..Len(rootFiles) : should_ignore_file(Name(rootFiles[i]))
       /\ 1 \notin DOMAIN map
    THEN (1 :> CREATE_ROOT_S1) @@ map
    ELSE map

\* process_show, lines 58-85: up to the loop over the seasons
ProcessShow ==
    /\ pc = "show"
    /\ shows # <<>>
    /\ LET path == Head(shows)
           items == SortedPaths(Children(path))
           folders == SelectSeq(items, is_dir)
           rootFiles == SelectSeq(items, LAMBDA x : is_file(x) /\ IsVideo(Name(x)))
           map == WithRootSeason(MapFoldersToSeasons(folders, EmptyMap), rootFiles)
       IN /\ show_path' = path
          /\ shows' = Tail(shows)
          /\ show_logs' = log_tree(<<>>, 0, Name(path), NoName)
          /\ initial_ops_count' = Len(operations)
          /\ root_files' = rootFiles
          /\ seasons_map' = map
          /\ season_queue' = SortedInts(DOMAIN map)
    /\ pc' = "season"
    /\ s_num' = 0
    /\ assigned' = <<>>
    /\ UNCHANGED << treeVars, target, os_name, run, operations, tree_output, script,
                    applied, is_root, episode_counter, file_queue, discs_map,
                    disc_queue >>

\* lines 108-112: the loop over the sorted items, later folders overwrite
RECURSIVE MapFoldersToDiscs(_, _, _)
MapFoldersToDiscs(items, season_num, map) ==
    IF items = <<>> THEN map
    ELSE LET item == Head(items)
             d_num == IF is_dir(item)
                      THEN get_clean_disc_num(Name(item), season_num)
                      ELSE None
         IN MapFoldersToDiscs(
                Tail(items), season_num,
                IF d_num # None /\ d_num # 0 THEN (d_num :> item) @@ map ELSE map)

\* lines 85-94 and 100-114: one season is entered
ProcessSeason ==
    /\ pc = "season"
    /\ season_queue # <<>>
    /\ LET n == Head(season_queue)
           folder == seasons_map[n]
           target_season_name == <<"S", "e", "a", "s", "o", "n", " ">> \o Str(n)
       IN /\ s_num' = n
          /\ season_queue' = Tail(season_queue)
          /\ IF folder = CREATE_ROOT_S1
             THEN /\ is_root' = TRUE
                  /\ show_logs' = show_logs
                  /\ discs_map' = EmptyMap
                  /\ file_queue' = SortedPaths(Range(root_files))
             ELSE LET rename_op == IF Name(folder) # target_season_name
                                   THEN target_season_name ELSE NoName
                      items == SortedPaths(Children(folder))
                  IN /\ is_root' = FALSE
                     /\ show_logs' = log_tree(show_logs, 1, Name(folder), rename_op)
                     /\ discs_map' = MapFoldersToDiscs(items, n, EmptyMap)
                     /\ file_queue' =
                           SelectSeq(items, LAMBDA x : is_file(x) /\ IsVideo(Name(x)))
    /\ episode_counter' = 0
    /\ disc_queue' = SortedInts(DOMAIN discs_map')
    /\ pc' = "direct"
    /\ UNCHANGED << treeVars, target, os_name, run, operations, tree_output, script,
                    applied, shows, show_path, initial_ops_count, root_files,
                    seasons_map, assigned >>

\* as NextCounter, but an explicit number leaves the counter as it was
NextCounterNoFloor(current_counter, explicit_ep) ==
    IF explicit_ep # None /\ explicit_ep # 0
    THEN current_counter
    ELSE current_counter + 1

\* as NextCounter, but an explicit number replaces the counter
NextCounterNoMax(current_counter, explicit_ep) ==
    IF explicit_ep # None /\ explicit_ep # 0
    THEN explicit_ep
    ELSE current_counter + 1

\* lines 141-146: the counter plan_file_rename returns
NextCounter(current_counter, explicit_ep) ==
    IF explicit_ep # None /\ explicit_ep # 0
    THEN Max(current_counter, explicit_ep)
    ELSE current_counter + 1

\* lines 141-146: final_ep_num
FinalEpNum(current_counter, explicit_ep) ==
    IF explicit_ep # None /\ explicit_ep # 0
    THEN explicit_ep
    ELSE current_counter + 1

\* line 148
NewName(season_num, final_ep_num, suffix) ==
    <<"S">> \o Fmt02(season_num) \o <<"E">> \o Fmt02(final_ep_num) \o suffix

\* plan_file_rename, lines 138-162
plan_file_rename(file_path, season_num, current_counter, indent, is_root_move) ==
    LET explicit_ep == get_episode_from_file(Name(file_path))
        final_ep_num == FinalEpNum(current_counter, explicit_ep)
        new_name == NewName(season_num, final_ep_num, Suffix(Name(file_path)))
        needs_rename == Name(file_path) # new_name
    IN /\ IF needs_rename \/ is_root_move
          THEN /\ show_logs' = log_tree(show_logs, indent, Name(file_path), new_name)
               /\ operations' = Append(operations,
                                       [original |-> file_path,
                                        new_name |-> new_name,
                                        season_num |-> season_num,
                                        is_root_move |-> is_root_move])
          ELSE UNCHANGED << show_logs, operations >>
       /\ episode_counter' = NextCounter(current_counter, explicit_ep)
       /\ assigned' = Append(assigned,
                             [file |-> file_path,
                              season |-> season_num,
                              explicit_ep |-> explicit_ep,
                              ep |-> final_ep_num,
                              new_name |-> new_name,
                              is_root_move |-> is_root_move,
                              before |-> current_counter,
                              counter |-> NextCounter(current_counter, explicit_ep)])

\* lines 117-119 and 134-136: one turn of the loop over direct_files or disc_files
ProcessFile(indent, is_root_move) ==
    /\ file_queue # <<>>
    /\ LET f == Head(file_queue)
       IN IF should_ignore_file(Name(f))
          THEN UNCHANGED << show_logs, operations, episode_counter, assigned >>
          ELSE plan_file_rename(f, s_num, episode_counter, indent, is_root_move)
    /\ file_queue' = Tail(file_queue)
    /\ UNCHANGED << treeVars, target, os_name, pc, run, tree_output, script, applied,
                    shows, show_path, initial_ops_count, root_files, seasons_map,
                    season_queue, s_num, is_root, discs_map, disc_queue >>

ProcessDirectFile ==
    /\ pc = "direct"
    /\ ProcessFile(2, is_root)

ProcessDiscFile ==
    /\ pc = "disc"
    /\ ProcessFile(3, FALSE)

\* as ProcessDisc, but the counter starts again at 0 in every disc
ProcessDiscResetCounter ==
    /\ pc \in {"direct", "disc"}
    /\ file_queue = <<>>
    /\ disc_queue # <<>>
    /\ LET d_num == Head(disc_queue)
           disc_folder == discs_map[d_num]
           target_disc_name == <<"S">> \o Str(s_num) \o <<"D">> \o Str(d_num)
           rename_op == IF Name(disc_folder) # target_disc_name
                        THEN target_disc_name ELSE NoName
       IN /\ show_logs' = log_tree(show_logs, 2, Name(disc_folder), rename_op)
          /\ file_queue' =
                SortedPaths({ x \in Children(disc_folder) :
                                is_file(x) /\ IsVideo(Name(x)) })
    /\ disc_queue' = Tail(disc_queue)
    /\ pc' = "disc"
    /\ episode_counter' = 0
    /\ UNCHANGED << treeVars, target, os_name, run, operations, tree_output, script,
                    applied, shows, show_path, initial_ops_count, root_files,
                    seasons_map, season_queue, s_num, is_root, discs_map, assigned >>

\* lines 122-133: the next disc is entered
ProcessDisc ==
    /\ pc \in {"direct", "disc"}
    /\ file_queue = <<>>
    /\ disc_queue # <<>>
    /\ LET d_num == Head(disc_queue)
           disc_folder == discs_map[d_num]
           target_disc_name == <<"S">> \o Str(s_num) \o <<"D">> \o Str(d_num)
           rename_op == IF Name(disc_folder) # target_disc_name
                        THEN target_disc_name ELSE NoName
       IN /\ show_logs' = log_tree(show_logs, 2, Name(disc_folder), rename_op)
          /\ file_queue' =
                SortedPaths({ x \in Children(disc_folder) :
                                is_file(x) /\ IsVideo(Name(x)) })
    /\ disc_queue' = Tail(disc_queue)
    /\ pc' = "disc"
    /\ UNCHANGED << treeVars, target, os_name, run, operations, tree_output, script,
                    applied, shows, show_path, initial_ops_count, root_files,
                    seasons_map, season_queue, s_num, is_root, episode_counter,
                    discs_map, assigned >>

\* process_season_content returns
EndSeason ==
    /\ pc \in {"direct", "disc"}
    /\ file_queue = <<>>
    /\ disc_queue = <<>>
    /\ pc' = "season"
    /\ UNCHANGED << treeVars, target, os_name, run, operations, tree_output, script,
                    applied, shows, showVars, seasonVars >>

\* as CommitLogs, but the show's logs are kept whatever it added
CommitLogsAlways ==
    /\ pc = "season"
    /\ season_queue = <<>>
    /\ tree_output' = tree_output \o show_logs
    /\ pc' = "show"
    /\ UNCHANGED << treeVars, target, os_name, run, operations, script, applied,
                    shows, showVars, seasonVars >>

\* lines 96-98: the show's logs are kept when it added operations
CommitLogs ==
    /\ pc = "season"
    /\ season_queue = <<>>
    /\ tree_output' = IF Len(operations) > initial_ops_count
                      THEN tree_output \o show_logs
                      ELSE tree_output
    /\ pc' = "show"
    /\ UNCHANGED << treeVars, target, os_name, run, operations, script, applied,
                    shows, showVars, seasonVars >>

-----------------------------------------------------------------------------
(* generate_script, lines 172-202.  A line of the script file is a record: *)
(* the program, its options, and the two quoted paths.                     *)

ScriptLine(prog, opts, src, dst) ==
    [prog |-> prog, opts |-> opts, src |-> src, dst |-> dst]

\* lines 180-181
ScriptHeader(is_windows) ==
    IF is_windows
    THEN << ScriptLine("REM Generated by Jellyfin Organizer", {}, <<>>, <<>>) >>
    ELSE << ScriptLine("#!/bin/bash", {}, <<>>, <<>>),
            ScriptLine("# Generated by Jellyfin Organizer", {}, <<>>, <<>>) >>

\* lines 184-201: the lines written for one operation
OpLines(op, is_windows) ==
    LET orig == op.original
        parent == Parent(op.original)
    IN IF op.is_root_move
       THEN LET dest_folder == Join(Parent(op.original),
                                    <<"S", "e", "a", "s", "o", "n", " ">>
                                        \o Str(op.season_num))
                dest_file == Join(dest_folder, op.new_name)
            IN IF is_windows
               THEN << ScriptLine("mkdir", {"2>nul"}, dest_folder, <<>>),
                       ScriptLine("move", {}, orig, dest_file) >>
               ELSE << ScriptLine("mkdir", {"-p"}, dest_folder, <<>>),
                       ScriptLine("mv", {"-n"}, orig, dest_file) >>
       ELSE LET dest_file == Join(parent, op.new_name)
            IN IF is_windows
               THEN << ScriptLine("move", {}, orig, dest_file) >>
               ELSE << ScriptLine("mv", {"-n"}, orig, dest_file) >>

\* as AllOpLines, but the lines of the last operation come first
RECURSIVE AllOpLinesReversed(_, _)
AllOpLinesReversed(ops, is_windows) ==
    IF ops = <<>> THEN <<>>
    ELSE AllOpLinesReversed(Tail(ops), is_windows) \o OpLines(Head(ops), is_windows)

\* lines 183-201: the loop over the operations
RECURSIVE AllOpLines(_, _)
AllOpLines(ops, is_windows) ==
    IF ops = <<>> THEN <<>>
    ELSE OpLines(Head(ops), is_windows) \o AllOpLines(Tail(ops), is_windows)

\* the contents generate_script gives the script file (NoScript: no file is written)
generate_script(ops, is_windows) ==
    IF ops = <<>> THEN NoScript
    ELSE ScriptHeader(is_windows) \o AllOpLines(ops, is_windows)

\* mv -n does not overwrite; move, run from a batch file, overwrites unasked
Overwrites(line) == line.prog = "move" /\ "/-Y" \notin line.opts

IsMove(line) == line.prog \in {"mv", "move"}

\* the files after one line of the script
FilesAfter(line) ==
    IF /\ IsMove(line)
       /\ line.src \in DOMAIN files
       /\ Parent(line.dst) \in dirs
       /\ line.dst \notin dirs
       /\ line.dst \notin DOMAIN files \/ Overwrites(line)
    THEN [p \in (DOMAIN files \ {line.src}) \cup {line.dst} |->
            IF p = line.dst THEN files[line.src] ELSE files[p]]
    ELSE files

\* the directories after one line of the script
DirsAfter(line) ==
    IF /\ line.prog = "mkdir"
       /\ line.dst = <<>>
       /\ line.src \notin DOMAIN files
       /\ Parent(line.src) \in dirs
    THEN dirs \cup {line.src}
    ELSE dirs

\* as Output, but the last move of the script is carried out at once
OutputAndExecute ==
    /\ pc = "show"
    /\ shows = <<>>
    /\ IF tree_output # <<>>
       THEN \E nm \in (IF os_name = "unread" THEN {"nt", "posix"} ELSE {os_name}) :
               LET lines == generate_script(operations, nm = "nt")
               IN /\ os_name' = nm
                  /\ script' = IF lines = NoScript THEN script ELSE lines
                  /\ files' = IF lines = NoScript THEN files
                              ELSE FilesAfter(lines[Len(lines)])
       ELSE UNCHANGED << os_name, script, files >>
    /\ pc' = "planned"
    /\ UNCHANGED << dirs, target, run, operations, tree_output, applied, shows,
                    showVars, seasonVars >>

\* detect_mode_and_run, lines 227-239: the plan is printed and the script written
Output ==
    /\ pc = "show"
    /\ shows = <<>>
    /\ IF tree_output # <<>>
       THEN \E nm \in (IF os_name = "unread" THEN {"nt", "posix"} ELSE {os_name}) :
               /\ os_name' = nm
               /\ script' = IF generate_script(operations, nm = "nt") = NoScript
                            THEN script
                            ELSE generate_script(operations, nm = "nt")
       ELSE UNCHANGED << os_name, script >>
    /\ pc' = "planned"
    /\ UNCHANGED << treeVars, target, run, operations, tree_output, applied, shows,
                    showVars, seasonVars >>

-----------------------------------------------------------------------------
(* The user runs the generated script (usage step 3, line 21), one line at *)
(* a time, and then runs the planner again.                                *)

ApplyLine ==
    /\ pc = "planned"
    /\ run = 1
    /\ script # NoScript
    /\ applied < Len(script)
    /\ files' = FilesAfter(script[applied + 1])
    /\ dirs' = DirsAfter(script[applied + 1])
    /\ applied' = applied + 1
    /\ UNCHANGED << target, os_name, pc, run, operations, tree_output, script, shows,
                    showVars, seasonVars >>

\* the planner is started again on the tree the script left
Rerun ==
    /\ pc = "planned"
    /\ run = 1
    /\ script # NoScript
    /\ applied = Len(script)
    /\ run' = 2
    /\ pc' = "start"
    /\ UNCHANGED << treeVars, target, os_name, operations, tree_output, script,
                    applied, shows, showVars, seasonVars >>

Next ==
    \/ DetectModeAndRun
    \/ ProcessShow
    \/ ProcessSeason
    \/ ProcessDirectFile
    \/ ProcessDiscFile
    \/ ProcessDisc
    \/ EndSeason
    \/ CommitLogs
    \/ Output
    \/ ApplyLine
    \/ Rerun

Spec == Init /\ [][Next]_vars

SpecLibrary == InitLibrary /\ [][Next]_vars

-----------------------------------------------------------------------------
(* Properties *)

\* the destination path generate_script writes for an operation
Dest(op) == LET lines == OpLines(op, FALSE) IN lines[Len(lines)].dst

\* a file name that contains '[IGNORE]', 'SAMPLE' or 'TRAILER', whatever the case
HasIgnoreKeyword(name) ==
    \E k \in FILE_IGNORE_KEYWORDS : Contains(upper(name), k)

\* what plan_file_rename assigned in the season scope being processed
SeasonScope == SelectSeq(assigned, LAMBDA r : r.season = s_num)

\* the numbering took the sequential branch for this file
AutoNumbered(r) == r.explicit_ep = None \/ r.explicit_ep = 0

\* the operation list as pairs <<source path, new name>>
Renames == [i \in 1..Len(operations) |->
              <<operations[i].original, operations[i].new_name>>]

\* C1: no step of a planning run (mode detection, process_show and all below
\* it, the output step with generate_script) changes the files or directories
\* of the tree or runs a line of the script; the script file is written only by
\* the output step.
C1_PlanLeavesTreeUnchanged ==
    [][ pc # "planned" =>
          /\ files' = files
          /\ dirs' = dirs
          /\ applied' = applied
          /\ (script' # script => pc = "show" /\ shows = <<>>) ]_vars

\* C1 witness: a first planning run has ended with the script written, none of
\* its lines run and every file where it was.
C1_Witness ==
    /\ pc = "planned"
    /\ run = 1
    /\ script # NoScript
    /\ applied = 0
    /\ \A p \in DOMAIN files : files[p] = p
    /\ Len(operations) >= 2

\* C2: no two operations of the operation list have the same destination path.
C2_NoDuplicateTargets ==
    \A i, j \in 1..Len(operations) :
        i # j => Dest(operations[i]) # Dest(operations[j])

\* C3: no line of the apply script, in either dialect, replaces a file that
\* exists at its destination: a path that holds a file before a step and after
\* it holds the same file.
C3_NonClobberingApply ==
    [][ \A p \in DOMAIN files : p \in DOMAIN files' => files'[p] = files[p] ]_vars

\* C4: the planning run made after the script was applied ends with an empty
\* operation list.
C4_SecondPlanEmpty ==
    (pc = "planned" /\ run = 2) => operations = <<>>

\* C5 as claimed: within a season scope the assigned episode numbers, in
\* processing order, never decrease.
C5_NumbersNonDecreasing ==
    \A i \in 1..(Len(SeasonScope) - 1) : SeasonScope[i].ep <= SeasonScope[i + 1].ep

\* C5 as amended: within a season scope the number assigned to an auto-numbered
\* file is never below a number assigned earlier in the scope (a decrease
\* happens only at a file that carries its own explicit number).
C5_NonDecreasingAtAutoNumbered ==
    \A j \in 1..Len(SeasonScope) :
        AutoNumbered(SeasonScope[j]) =>
            \A i \in 1..(j - 1) : SeasonScope[i].ep <= SeasonScope[j].ep

\* C5 witness: an explicit file was given a number below its predecessor's and
\* an auto-numbered file after it was numbered above both.
C5_Witness ==
    /\ Len(SeasonScope) = 3
    /\ SeasonScope[2].ep < SeasonScope[1].ep
    /\ ~AutoNumbered(SeasonScope[2])
    /\ AutoNumbered(SeasonScope[3])
    /\ SeasonScope[3].ep > SeasonScope[1].ep

\* C6: within a season scope, a file without explicit number that is processed
\* after a file with explicit number E is assigned a number greater than E.
C6_ExplicitNumberIsFloor ==
    \A i, j \in 1..Len(SeasonScope) :
        (i < j /\ SeasonScope[i].explicit_ep # None
               /\ SeasonScope[j].explicit_ep = None)
            => SeasonScope[j].ep > SeasonScope[i].explicit_ep

\* C6 witness: explicit numbers 2 and then 1 were processed, and the
\* auto-numbered file after them got 3.
C6_Witness ==
    /\ Len(SeasonScope) = 3
    /\ SeasonScope[1].explicit_ep = 2
    /\ SeasonScope[2].explicit_ep = 1
    /\ SeasonScope[3].explicit_ep = None
    /\ SeasonScope[3].ep = 3

\* no operation has a file with an ignore keyword as its source
C7_NoIgnoredSource ==
    \A i \in 1..Len(operations) : ~HasIgnoreKeyword(Name(operations[i].original))

\* the turn of the file loop that meets a file with an ignore keyword
C7_IgnoredFileStep ==
    ( /\ pc \in {"direct", "disc"}
      /\ file_queue # <<>>
      /\ HasIgnoreKeyword(Name(Head(file_queue))) )
    => /\ episode_counter' = episode_counter
       /\ operations' = operations

\* C7: a file whose name contains an ignore keyword is the source of no
\* operation, and the step that processes it (as a root file, a direct file or
\* a disc file) leaves the episode counter and the operation list as they were.
C7_IgnoreCorrectness ==
    []C7_NoIgnoredSource /\ [][C7_IgnoredFileStep]_vars

\* C7 witness: a season is done in which an ignored file of the first disc was
\* passed between two files that were numbered 1 and 2.
C7_Witness ==
    /\ pc = "season"
    /\ run = 1
    /\ s_num = 2
    /\ Join(<<nShow, nSeason2, nS2D1>>, fSample) \in DOMAIN files
    /\ Len(SeasonScope) = 2
    /\ SeasonScope[1].file = Join(<<nShow, nSeason2, nS2D1>>, f1)
    /\ SeasonScope[2].file = Join(<<nShow, nSeason2, nS2D2>>, f1)
    /\ SeasonScope[2].ep = 2
    /\ episode_counter = 2

\* every file of the show that was given a name already had that name
ShowAllCanonical ==
    \A i \in 1..Len(assigned) : Name(assigned[i].file) = assigned[i].new_name

\* a file of the show was planned as a move from the show root
ShowHasRootMove ==
    \E i \in 1..Len(assigned) : assigned[i].is_root_move

\* C8 as claimed: a show all of whose files already have their canonical names
\* adds no line to tree_output, root files without Season 1 folder included.
C8_QuietMode ==
    [][ (pc = "season" /\ season_queue = <<>> /\ ShowAllCanonical)
          => tree_output' = tree_output ]_vars

\* C8 as amended: a show all of whose files already have their canonical names
\* adds no line to tree_output unless files of it sit at the show root and are
\* moved into a Season 1 folder that does not exist yet.
C8_QuietModeUnlessRootMove ==
    [][ (pc = "season" /\ season_queue = <<>> /\ ShowAllCanonical
                       /\ ~ShowHasRootMove)
          => tree_output' = tree_output ]_vars

\* C8 witness: the show is done, a file of it was given the name it already
\* had, and nothing was added to the operations or to tree_output.
C8_Witness ==
    /\ pc = "show"
    /\ run = 1
    /\ shows = <<>>
    /\ assigned # <<>>
    /\ ShowAllCanonical
    /\ ~ShowHasRootMove
    /\ operations = <<>>
    /\ tree_output = <<>>

\* the non-ignored video files of a directory, sorted by name
NonIgnoredVideos(dir) ==
    SortedPaths({ x \in Children(dir) :
                    is_file(x) /\ IsVideo(Name(x)) /\ ~HasIgnoreKeyword(Name(x)) })

\* the non-ignored video files of the given discs, disc after disc
RECURSIVE DiscVideos(_)
DiscVideos(disc_nums) ==
    IF disc_nums = <<>> THEN <<>>
    ELSE NonIgnoredVideos(discs_map[Head(disc_nums)]) \o DiscVideos(Tail(disc_nums))

\* the direct files, then the files of the discs in ascending disc number
ProcessingOrder(folder) ==
    NonIgnoredVideos(folder) \o DiscVideos(SortedInts(DOMAIN discs_map))

\* no file in the folder or in a folder below it has an SxxEyy code
NoExplicitCodeUnder(folder) ==
    \A q \in DOMAIN files :
        (Len(q) > Len(folder) /\ SubSeq(q, 1, Len(folder)) = folder)
            => get_episode_from_file(Name(q)) = None

\* C9: when a season folder holds no file with an explicit SxxEyy code, its
\* non-ignored video files, direct files first and then disc by disc, are
\* assigned exactly 1, 2, ..., n.
C9_DenseAcrossDiscs ==
    ( /\ pc = "season"
      /\ s_num # 0
      /\ ~is_root
      /\ NoExplicitCodeUnder(seasons_map[s_num]) )
    => /\ Len(SeasonScope) = Len(ProcessingOrder(seasons_map[s_num]))
       /\ \A i \in 1..Len(SeasonScope) :
             /\ SeasonScope[i].file = ProcessingOrder(seasons_map[s_num])[i]
             /\ SeasonScope[i].ep = i

\* C9 witness: a season with a direct file and a file in each of two discs is
\* done, and the file of the second disc got number 3.
C9_Witness ==
    /\ pc = "season"
    /\ run = 1
    /\ s_num = 2
    /\ ~is_root
    /\ NoExplicitCodeUnder(seasons_map[s_num])
    /\ Len(SeasonScope) = 3
    /\ Parent(SeasonScope[1].file) = <<nShow, nSeason2>>
    /\ Parent(SeasonScope[2].file) = <<nShow, nSeason2, nS2D1>>
    /\ Parent(SeasonScope[3].file) = <<nShow, nSeason2, nS2D2>>
    /\ SeasonScope[3].ep = 3

\* the show Show has been processed in the first run, as the only show
ShowProcessed ==
    pc = "show" /\ run = 1 /\ shows = <<>> /\ show_path = <<nShow>>

\* Show/S2D1 with two files and Show/S2D2 with one
ScenarioBTree ==
    FilesIn(<<nShow, nS2D1>>, {f1, f2}) \cup FilesIn(<<nShow, nS2D2>>, {f1})

\* Show/Season 2/S2D1 with two files and Show/Season 2/S2D2 with one
ScenarioBInSeasonFolder ==
    FilesIn(<<nShow, nSeason2, nS2D1>>, {f1, f2})
    \cup FilesIn(<<nShow, nSeason2, nS2D2>>, {f1})

\* C10 as claimed: with S2D1 (two files) and S2D2 (one file) directly under the
\* show, the three files are renamed S02E01, S02E02 and S02E03.
C10_ScenarioB ==
    (ShowProcessed /\ DOMAIN files = ScenarioBTree)
    => Renames = << <<Join(<<nShow, nS2D1>>, f1), NewName(2, 1, Suffix(f1))>>,
                    <<Join(<<nShow, nS2D1>>, f2), NewName(2, 2, Suffix(f2))>>,
                    <<Join(<<nShow, nS2D2>>, f1), NewName(2, 3, Suffix(f1))>> >>

\* C10 as amended: with S2D1 (two files) and S2D2 (one file) inside the show's
\* Season 2 folder, the three files are renamed S02E01, S02E02 and S02E03; with
\* the two folders directly under the show, both resolve to season 2, no file
\* of S2D1 is the source of an operation, and in the scenario's tree the only
\* operation renames the file of S2D2 to S02E01.
C10_ScenarioBInSeasonFolder ==
    ShowProcessed =>
      /\ DOMAIN files = ScenarioBInSeasonFolder
            => Renames =
                 << <<Join(<<nShow, nSeason2, nS2D1>>, f1), NewName(2, 1, Suffix(f1))>>,
                    <<Join(<<nShow, nSeason2, nS2D1>>, f2), NewName(2, 2, Suffix(f2))>>,
                    <<Join(<<nShow, nSeason2, nS2D2>>, f1), NewName(2, 3, Suffix(f1))>> >>
      /\ (<<nShow, nS2D1>> \in dirs /\ <<nShow, nS2D2>> \in dirs)
            => \A i \in 1..Len(operations) :
                  Parent(operations[i].original) # <<nShow, nS2D1>>
      /\ DOMAIN files = ScenarioBTree
            => Renames = << <<Join(<<nShow, nS2D2>>, f1), NewName(2, 1, Suffix(f1))>> >>

\* C10 witness: the show with the two discs inside Season 2 has been processed
\* and the file of the second disc is renamed S02E03.
C10_Witness ==
    /\ ShowProcessed
    /\ DOMAIN files = ScenarioBInSeasonFolder
    /\ Len(operations) = 3
    /\ operations[3].new_name = NewName(2, 3, Suffix(f1))

\* the operation list as it is when every operation is a move from the show root
RootMoves(pairs) ==
    [i \in 1..Len(pairs) |->
        [original |-> pairs[i][1], new_name |-> pairs[i][2],
         season_num |-> 1, is_root_move |-> TRUE]]

\* the show root holds 'pilot S01E05.mkv' and 'other.mkv' and nothing else
ScenarioCTree == FilesIn(<<nShow>>, {fPilot, fOther})

\* the operation of the list whose source is the given file has the given name
RootMoveTo(file, name) ==
    \E i \in 1..Len(operations) :
        /\ operations[i].original = file
        /\ operations[i].new_name = name
        /\ operations[i].is_root_move
        /\ Dest(operations[i]) = Join(<<nShow, nSeason1>>, name)

\* C11 as claimed: with 'pilot S01E05.mkv' and 'other.mkv' at the show root and
\* no season folder, both are moved into a new Season 1 folder, the first as
\* S01E05.mkv and 'other.mkv', numbered after it, as S01E06.mkv.
C11_ScenarioC ==
    (ShowProcessed /\ DOMAIN files = ScenarioCTree)
    => /\ seasons_map = (1 :> CREATE_ROOT_S1)
       /\ <<nShow, nSeason1>> \notin dirs
       /\ RootMoveTo(Join(<<nShow>>, fPilot), NewName(1, 5, Suffix(fPilot)))
       /\ RootMoveTo(Join(<<nShow>>, fOther), NewName(1, 6, Suffix(fOther)))

\* C11 as amended: the root files are numbered in the order of their names.
\* In the scenario 'other.mkv' comes first and becomes S01E01.mkv, then
\* 'pilot S01E05.mkv' becomes S01E05.mkv and leaves the counter at 5; both are
\* root moves into a Season 1 folder that does not exist yet, and the applied
\* script leaves exactly these two files there.  An auto-numbered root file is
\* numbered above an explicit-numbered root file whenever its name sorts after
\* that file's name.
C11_ScenarioCInNameOrder ==
    /\ (ShowProcessed /\ DOMAIN files = ScenarioCTree)
       => /\ seasons_map = (1 :> CREATE_ROOT_S1)
          /\ <<nShow, nSeason1>> \notin dirs
          /\ operations =
                RootMoves(<< <<Join(<<nShow>>, fOther), NewName(1, 1, Suffix(fOther))>>,
                             <<Join(<<nShow>>, fPilot), NewName(1, 5, Suffix(fPilot))>> >>)
          /\ \A i \in 1..2 :
                Dest(operations[i]) = Join(<<nShow, nSeason1>>, operations[i].new_name)
          /\ episode_counter = 5
    /\ ( /\ pc = "planned"
         /\ run = 1
         /\ script # NoScript
         /\ applied = Len(script)
         /\ { files[p] : p \in DOMAIN files } = ScenarioCTree )
       => /\ <<nShow, nSeason1>> \in dirs
          /\ files = ( Join(<<nShow, nSeason1>>, NewName(1, 1, Suffix(fOther)))
                          :> Join(<<nShow>>, fOther)
                       @@ Join(<<nShow, nSeason1>>, NewName(1, 5, Suffix(fPilot)))
                          :> Join(<<nShow>>, fPilot) )
    /\ \A i, j \in 1..Len(assigned) :
          ( /\ assigned[i].is_root_move
            /\ assigned[j].is_root_move
            /\ ~AutoNumbered(assigned[i])
            /\ AutoNumbered(assigned[j])
            /\ StrLess(Name(assigned[i].file), Name(assigned[j].file)) )
          => /\ i < j
             /\ assigned[j].ep > assigned[i].ep

\* C11 witness: the script of the scenario has been applied in full, and
\* 'other.mkv' lies in the new Season 1 folder as S01E01.mkv.
C11_Witness ==
    /\ pc = "planned"
    /\ run = 1
    /\ script # NoScript
    /\ applied = Len(script)
    /\ Len(operations) = 2
    /\ operations[2].original = Join(<<nShow>>, fPilot)
    /\ Join(<<nShow, nSeason1>>, NewName(1, 1, Suffix(fOther))) \in DOMAIN files
    /\ files[Join(<<nShow, nSeason1>>, NewName(1, 1, Suffix(fOther)))]
          = Join(<<nShow>>, fOther)

\* process_show has gone through every season of the show
ShowDone == pc = "season" /\ season_queue = <<>>

\* the root video files of the show that carry no ignore keyword
NonIgnoredRootFiles ==
    { root_files[i] : i \in { k \in 1..Len(root_files) :
                                ~HasIgnoreKeyword(Name(root_files[k])) } }

\* no folder of the show was mapped to season 1
NoSeason1Folder == 1 \in DOMAIN seasons_map => seasons_map[1] = CREATE_ROOT_S1

\* C12: when a show has a root video file that is not ignored and no folder
\* maps to season 1, the synthetic season 1 is registered and every
\* non-ignored root video file is the source of an operation with
\* is_root_move, also when another root video file is ignored.
C12_SyntheticSeason ==
    (ShowDone /\ NonIgnoredRootFiles # {} /\ NoSeason1Folder)
    => /\ 1 \in DOMAIN seasons_map
       /\ \A f \in NonIgnoredRootFiles :
             \E i \in 1..Len(operations) :
                /\ operations[i].original = f
                /\ operations[i].is_root_move

\* C13: every file whose name carries an SxxEyy code with episode value E,
\* E = 0 included, is assigned E, and plan_file_rename returns the larger of
\* the counter it was given and E; the Sxx part is not compared with the season.
C13_ExplicitNumberAssigned ==
    \A i \in 1..Len(assigned) :
        assigned[i].explicit_ep # None
            => /\ assigned[i].ep = assigned[i].explicit_ep
               /\ assigned[i].counter = Max(assigned[i].before, assigned[i].explicit_ep)

\* a folder name that contains a folder ignore keyword, whatever the case
HasFolderIgnoreKeyword(name) ==
    \E k \in FOLDER_IGNORE_KEYWORDS : Contains(upper(name), k)

\* a folder between the show and the file carries a folder ignore keyword
InIgnoredFolder(file) ==
    \E n \in (Len(show_path) + 1)..(Len(file) - 1) : HasFolderIgnoreKeyword(file[n])

\* no ignored folder is a value of seasons_map
C14_SeasonsMapGated ==
    \A n \in DOMAIN seasons_map :
        seasons_map[n] # CREATE_ROOT_S1
            => ~HasFolderIgnoreKeyword(Name(seasons_map[n]))

\* C14: a folder whose name contains a folder ignore keyword is a value
\* neither of seasons_map nor of discs_map, and no file inside it is the
\* source of an operation or is given a number.
C14_IgnoredFoldersGated ==
    /\ C14_SeasonsMapGated
    /\ \A d \in DOMAIN discs_map : ~HasFolderIgnoreKeyword(Name(discs_map[d]))
    /\ \A i \in 1..Len(assigned) : ~InIgnoredFolder(assigned[i].file)
    /\ \A i \in 1..Len(operations) :
          \A n \in 1..(Len(operations[i].original) - 1) :
             ~HasFolderIgnoreKeyword(operations[i].original[n])

\* the lines of the plan that show a folder with an arrow to its new name
FolderRenameLines ==
    { i \in 1..Len(tree_output) :
        /\ tree_output[i].arrow # NoName
        /\ ~IsVideo(tree_output[i].arrow) }

\* line k of the script renames a folder from the one name to the other
IsFolderRename(k, old, new) ==
    /\ IsMove(script[k])
    /\ Name(script[k].src) = old
    /\ script[k].dst = Join(Parent(script[k].src), new)

\* C15: for every folder the plan shows as 'old -> new', the script holds a
\* line that renames the folder, before every move of a file to a path below
\* the folder's new name.
C15_FolderRenamesInScript ==
    (pc = "planned" /\ script # NoScript)
    => \A i \in FolderRenameLines :
          \E k \in 1..Len(script) :
             /\ IsFolderRename(k, tree_output[i].text, tree_output[i].arrow)
             /\ \A j \in 1..Len(script) :
                   ( /\ IsMove(script[j])
                     /\ j # k
                     /\ Len(script[j].dst) > Len(script[k].dst)
                     /\ SubSeq(script[j].dst, 1, Len(script[k].dst)) = script[k].dst )
                   => k < j

\* the position in the script of the move of the i-th operation
MoveIndex(i) ==
    CHOOSE k \in 1..Len(script) :
        /\ IsMove(script[k])
        /\ Cardinality({ j \in 1..k : IsMove(script[j]) }) = i

\* 'Season N' for the season of the operation
SeasonFolderName(op) == <<"S", "e", "a", "s", "o", "n", " ">> \o Str(op.season_num)

\* C16: the script holds one move per operation, in the order of the operation
\* list; the move of an operation with is_root_move comes right after the
\* create-directory command for '<show>/Season N' and goes into that folder;
\* the move of any other operation stays in the parent directory of its source
\* and has no create-directory command.
C16_EmissionOrder ==
    (pc = "planned" /\ operations # <<>>)
    => /\ script # NoScript
       /\ Cardinality({ k \in 1..Len(script) : IsMove(script[k]) }) = Len(operations)
       /\ Cardinality({ k \in 1..Len(script) : script[k].prog = "mkdir" })
             = Cardinality({ i \in 1..Len(operations) : operations[i].is_root_move })
       /\ \A i \in 1..Len(operations) :
             LET k == MoveIndex(i)
                 op == operations[i]
             IN /\ script[k].src = op.original
                /\ Name(script[k].dst) = op.new_name
                /\ IF op.is_root_move
                   THEN /\ script[k - 1].prog = "mkdir"
                        /\ script[k - 1].src
                              = Join(Parent(op.original), SeasonFolderName(op))
                        /\ Parent(script[k].dst) = script[k - 1].src
                   ELSE /\ script[k - 1].prog # "mkdir"
                        /\ Parent(script[k].dst) = Parent(op.original)

\* C16 witness: the batch script was written for a plan that moves a root
\* file into Season 1 and then renames a file inside Season 2.
C16_Witness ==
    /\ pc = "planned"
    /\ run = 1
    /\ os_name = "nt"
    /\ Len(operations) = 2
    /\ operations[1].is_root_move
    /\ ~operations[2].is_root_move
    /\ script[2].prog = "mkdir"
    /\ script[4].src = operations[2].original

\* the show an operation belongs to: the first folder of its source path
ShowOf(op) == op.original[1]

\* the source of the operation lies in a disc folder (show/season/disc/file)
IsDiscFile(op) == Len(op.original) = 4

\* the disc number of the folder the source of a disc operation lies in
DiscOf(op) == get_clean_disc_num(Name(Parent(op.original)), op.season_num)

\* the order the claim gives to two operations
PlannedBefore(a, b) ==
    IF ShowOf(a) # ShowOf(b) THEN StrLess(ShowOf(a), ShowOf(b))
    ELSE IF a.season_num # b.season_num THEN a.season_num < b.season_num
    ELSE IF IsDiscFile(a) # IsDiscFile(b) THEN IsDiscFile(b)
    ELSE IF IsDiscFile(a) /\ DiscOf(a) # DiscOf(b) THEN DiscOf(a) < DiscOf(b)
    ELSE StrLess(Name(a.original), Name(b.original))

\* C17: the operation list is ordered by show (library mode, sort order of the
\* show folders), then by ascending season number, then direct files before
\* disc files, then by ascending disc number, then by file name.
C17_PlanningOrder ==
    \A i, j \in 1..Len(operations) :
        i < j => PlannedBefore(operations[i], operations[j])

\* C17 witness: a library plan that holds, in this order, a file of Staffel 1,
\* a file of disc 1 and a file of disc 2 of Season 2 (the folder 'Disc 2'
\* sorts before 'S2D1'), and a file of the second show.
C17_Witness ==
    /\ pc = "planned"
    /\ run = 1
    /\ target = <<>>
    /\ Len(operations) = 4
    /\ Parent(operations[1].original) = <<nShow, nStaffel1>>
    /\ Parent(operations[2].original) = <<nShow, nSeason2, nS2D1>>
    /\ Parent(operations[3].original) = <<nShow, nSeason2, nDisc2>>
    /\ Parent(operations[4].original) = <<nTv>>

\* the non-ignored folders of the show that resolve to the season number
FoldersOfSeason(n) ==
    { d \in Children(show_path) :
        /\ is_dir(d)
        /\ ~HasFolderIgnoreKeyword(Name(d))
        /\ get_clean_season_num(Name(d)) = n }

\* the season numbers the folders of the show resolve to
SeasonNumbers ==
    { get_clean_season_num(Name(d)) : d \in { c \in Children(show_path) : is_dir(c) } }
        \ {None}

\* the folder of the set that is last in sort order
LastSorted(S) == CHOOSE d \in S : \A e \in S \ {d} : StrLess(Name(e), Name(d))

\* the file lies in the folder or in a folder below it
Under(file, folder) ==
    Len(file) > Len(folder) /\ SubSeq(file, 1, Len(folder)) = folder

\* the show's log has a line for the season folder of that name
SeasonLogged(name) ==
    \E i \in 1..Len(show_logs) : show_logs[i].indent = 1 /\ show_logs[i].text = name

\* C18: when two or more non-ignored folders of a show resolve to one season
\* number, the season is processed once, with the folder that is last in sort
\* order; no file in the other folders is numbered or is the source of an
\* operation, and the show is processed to its end.
C18_LastSortedWins ==
    ShowDone =>
      \A n \in SeasonNumbers :
         Cardinality(FoldersOfSeason(n)) >= 2 =>
            /\ n \in DOMAIN seasons_map
            /\ seasons_map[n] = LastSorted(FoldersOfSeason(n))
            /\ \A d \in FoldersOfSeason(n) :
                  IF d = LastSorted(FoldersOfSeason(n))
                  THEN SeasonLogged(Name(d))
                  ELSE /\ ~SeasonLogged(Name(d))
                       /\ \A i \in 1..Len(assigned) : ~Under(assigned[i].file, d)
                       /\ \A i \in 1..Len(operations) :
                             ~Under(operations[i].original, d)

\* C18 witness: S2D1 and 'Season 2' of one show both resolve to season 2 and
\* both hold 1.mkv; the show is done and the only operation is for the file
\* in 'Season 2'.
C18_Witness ==
    /\ ShowDone
    /\ run = 1
    /\ Join(<<nShow, nS2D1>>, f1) \in DOMAIN files
    /\ Join(<<nShow, nSeason2>>, f1) \in DOMAIN files
    /\ seasons_map[2] = <<nShow, nSeason2>>
    /\ Len(operations) = 1
    /\ operations[1].original = Join(<<nShow, nSeason2>>, f1)

\* what plan_file_rename assigned in the season scope of the given number
ScopeOf(n) == SelectSeq(assigned, LAMBDA r : r.season = n)

\* the largest number assigned to the first i files of a scope
RECURSIVE MaxAssigned(_, _)
MaxAssigned(scope, i) ==
    IF i = 0 THEN 0 ELSE Max(scope[i].ep, MaxAssigned(scope, i - 1))

\* C19: in every season scope the counter is 0 before the first file, each
\* file is processed with the counter the file before it left, no file lowers
\* the counter, and after each file the counter is the largest number assigned
\* so far in the scope; while a scope is open the counter is the one its last
\* file left (0 when it has none).
C19_CounterInvariant ==
    /\ \A r \in Range(assigned) :
          LET scope == ScopeOf(r.season)
          IN /\ scope[1].before = 0
             /\ \A i \in 1..Len(scope) :
                   /\ scope[i].counter >= scope[i].before
                   /\ scope[i].counter = MaxAssigned(scope, i)
                   /\ i > 1 => scope[i].before = scope[i - 1].counter
    /\ pc \in {"direct", "disc"} =>
          episode_counter = MaxAssigned(SeasonScope, Len(SeasonScope))

\* C19 witness: the second season of a show is open with the counter at 0
\* after a first season that was left with the counter at 2, an explicit
\* number 1 having been assigned there after the number 2.
C19_Witness ==
    /\ pc = "direct"
    /\ s_num = 2
    /\ episode_counter = 0
    /\ Len(ScopeOf(1)) = 2
    /\ ScopeOf(1)[1].ep = 2
    /\ ScopeOf(1)[2].ep = 1
    /\ ScopeOf(1)[2].counter = 2
    /\ file_queue # <<>>

====
